---- MODULE Spec2Model ----
(***************************************************************************)
(* Model of the travel-matrix builder (app/services/matrix_service.py) and *)
(* of the pickup/drop-off routing engine (app/services/routing_service.py).*)
(*                                                                         *)
(* Conventions                                                             *)
(*  - Python None is the empty tuple <<>>; a present value x is <<x>>.     *)
(*  - A coordinate is an integer number x of 10^-7 degrees and stands for  *)
(*    the float nearest to that decimal, so that round(x, 6) is a rounding *)
(*    to a multiple of 10; on a tie (last digit 5) the float decides, see  *)
(*    FloatAgainstDecimal.  The float -0.0 itself is no input.             *)
(*  - A duration is a whole number of seconds ("90s" is 90).               *)
(*  - Python lists are 1-based TLA+ sequences; matrices are functions of   *)
(*    0-based row and column indices, as in minutes[i][j].                 *)
(*  - The sha256 digest of _cache_key is modelled by the JSON text it      *)
(*    digests (the digest is taken to be injective).                       *)
(*  - The id of a stop is a string.                                        *)
(***************************************************************************)
EXTENDS Integers, Sequences, FiniteSets, TLC

VARIABLES
    _cache,     \* matrix_service._cache: key -> {"ids", "minutes", "meters"}
    mcalls,     \* number of build_matrix calls made so far
    mlast,      \* the last build_matrix call: its arguments, the provider's behaviour, its outcome
    scalls,     \* number of solve_routes calls made so far
    slast,      \* the last solve_routes call: its arguments and its outcome
    threads     \* the build_matrix calls in flight: worker thread -> its local state

vars == <<_cache, mcalls, mlast, scalls, slast, threads>>

None == <<>>
Some(x) == <<x>>
Min2(a, b) == IF a <= b THEN a ELSE b
Max2(a, b) == IF a >= b THEN a ELSE b

(***************************************************************************)
(* Bounds of the model.                                                    *)
(***************************************************************************)
\* Stops per batch request.  The source sets MAX_BLOCK = 100; the model
\* scales it down so that builds of 3 and 4 stops span several blocks.
MAX_BLOCK == 2
\* Worker threads that serve build_matrix calls at the same time.
MaxThreads == 2
\* build_matrix calls explored in one behaviour of SpecMatrix.
MaxBuilds == 3
\* Longest stop list built in SpecBlocks.
MaxStops == 4
\* Largest fleet and largest vehicle capacity given to solve_routes.
MaxVehicles == 2
MaxCapacity == 2

(***************************************************************************)
(* Outcomes of a call: a returned value, a fastapi HTTPException, or any   *)
(* other Python exception (which the endpoint turns into status 500).      *)
(***************************************************************************)
HTTPException(status, detail) == [kind |-> "error", status |-> status, detail |-> detail]
Returned(v) == [kind |-> "ok", value |-> v]
Raised(type) == [kind |-> "exception", type |-> type]

(***************************************************************************)
(* matrix_service._cache_key                                               *)
(***************************************************************************)
Abs(x) == IF x < 0 THEN -x ELSE x
\* 5^7: the decimal a / 10^7 is the fraction a / (2^7 * 5^7).
FIVE_POW_7 == 78125
\* Bits of the significand of a Python float (an IEEE 754 double), less one.
MANTISSA_BITS == 52
\* The binary exponent of a / 5^7 for 0 < a < 2^31: the e with
\* 1 <= (a / 5^7) * 2^e < 2.
BinaryScale(a) ==
    LET d == a \div FIVE_POW_7                      \* a / 5^7 rounded down
        c == (FIVE_POW_7 + a - 1) \div a            \* 5^7 / a rounded up
    IN  IF d >= 1 THEN -(CHOOSE n \in 0..15 : 2^n <= d /\ d < 2^(n + 1))
        ELSE CHOOSE j \in 1..17 : 2^(j - 1) < c /\ c <= 2^j
\* (r * 2^e) mod 5^7, for 0 <= r < 5^7: thirteen doublings at a time (the
\* products stay below 2^31).
RECURSIVE DoubleMod(_, _)
DoubleMod(r, e) ==
    IF e <= 13 THEN (r * 2^e) % FIVE_POW_7
    ELSE DoubleMod((r * 2^13) % FIVE_POW_7, e - 13)
\* The float nearest to the decimal a / 10^7 (a > 0) against that decimal:
\* 1 when the float is the larger, -1 when it is the smaller, 0 when the
\* decimal is a float.  The float is m / 2^(e + 7) where m is a * 2^e / 5^7
\* rounded to the nearest integer and e makes m a number of 53 bits; it
\* lies above the decimal when the remainder of that division is more than
\* half of 5^7.
FloatAgainstDecimal(a) ==
    LET r == DoubleMod(a % FIVE_POW_7, BinaryScale(a) + MANTISSA_BITS)
    IN  IF r = 0 THEN 0 ELSE IF 2 * r > FIVE_POW_7 THEN 1 ELSE -1
\* Python round(x, 6) as a number, in 10^-7 degrees, for any coordinate
\* (|x| <= 180 * 10^7): the float is rounded to the nearest multiple of
\* 10^-6; where the decimal ends in the digit 5 the float decides, and where
\* the float is that decimal itself the even neighbour is taken.
Round6(x) ==
    LET a == Abs(x)
        q == (a \div 10) * 10
        side == FloatAgainstDecimal(a)
        m == IF a % 10 < 5 THEN q
             ELSE IF a % 10 > 5 THEN q + 10
             ELSE IF side > 0 THEN q + 10
             ELSE IF side < 0 THEN q
             ELSE IF (q \div 10) % 2 = 0 THEN q ELSE q + 10
    IN  IF x < 0 THEN -m ELSE m
\* json.dumps(round(x, 6)): the text of the rounded float.  A negative x
\* that rounds to zero gives -0.0, written "-0.0" and not "0.0".
JsonRound6(x) == [minus |-> x < 0, digits |-> Abs(Round6(x))]

_cache_key(coords, departure_time, routing_pref) ==
    [coords |-> [k \in 1..Len(coords) |->
                    <<JsonRound6(coords[k][1]), JsonRound6(coords[k][2])>>],
     dep |-> departure_time, pref |-> routing_pref]

(***************************************************************************)
(* What the process and the two providers do during one build_matrix call, *)
(* prov = [kind, at, traffic, form, geo, api_key]:                         *)
(*   api_key  whether GOOGLE_MAPS_API_KEY is set;                          *)
(*   geo      the geocoding provider: "ok" (it knows one address),         *)
(*            "http_error" (an HTTP error status), "timeout";              *)
(*   traffic  scales every duration (two calls may see different values);  *)
(*   form     is the encoding of the payload, "array" or "ndjson";         *)
(*   kind     is what happens for the origin/destination pair prov.at      *)
(*            (positions in the stop list), or for the request that        *)
(*            covers that pair:                                            *)
(*     "route"            nothing special, every element is a route        *)
(*     "no_condition"     the element carries no condition field           *)
(*     "no_route"         the element's condition is ROUTE_NOT_FOUND       *)
(*     "no_distance"      the element has a duration and no distanceMeters *)
(*     "omitted"          the element is absent from the response          *)
(*     "no_index"         the element carries no originIndex               *)
(*     "index_out"        the element's originIndex is past the block      *)
(*     "http_error"       the request is answered with an HTTP error status*)
(*     "error_payload"    the payload is an error object, {"error": ...}   *)
(*     "error_spaced"     the same object written { "error": ...}          *)
(*     "error_in_element" the element carries an error field and no route  *)
(*     "truncated"        the payload is cut short inside its last object  *)
(*     "timeout"          the request gets no answer in time               *)
(***************************************************************************)
ElementKinds == {"no_condition", "no_route", "no_distance", "omitted"}
ErrorKinds == {"http_error", "error_payload"}
FailureKinds == {"no_index", "index_out", "error_spaced", "error_in_element",
                 "truncated", "timeout"}

\* _get_key
_get_key(prov) ==
    IF prov.api_key THEN Returned("key")
    ELSE HTTPException(500, "GOOGLE_MAPS_API_KEY not set")

(***************************************************************************)
(* matrix_service.geocode                                                  *)
(***************************************************************************)
geocode(address, prov) ==
    IF _get_key(prov).kind = "error" THEN _get_key(prov)
    ELSE IF prov.geo = "timeout" THEN Raised("Timeout")
    ELSE IF prov.geo = "http_error" THEN Raised("HTTPError")
    ELSE IF address = "marunouchi" THEN Returned(<<3, 1>>)
    ELSE HTTPException(400, "Geocode failed")

(***************************************************************************)
(* The batch travel-matrix provider.                                       *)
(***************************************************************************)
ProviderDuration(gi, gj, traffic) ==
    IF gi = gj THEN 0 ELSE 30 * (4 * gi + gj + 1) * (1 + traffic)
ProviderDistance(gi, gj) ==
    IF gi = gj THEN 0 ELSE 100 * (4 * gi + gj) + 7

\* The element the provider reports for local indices (i, j) of a request
\* of no origins, the pair being (gi, gj) in the whole stop list.
ProviderElement(prov, gi, gj, i, j) ==
    LET special == prov.at = <<gi, gj>>
        secs == ProviderDuration(gi, gj, prov.traffic)
        dist == ProviderDistance(gi, gj)
    IN  IF special /\ prov.kind = "omitted"
            THEN [omitted |-> TRUE]
        ELSE IF special /\ prov.kind = "no_route"
            THEN [originIndex |-> i, destinationIndex |-> j, condition |-> "ROUTE_NOT_FOUND"]
        ELSE IF special /\ prov.kind = "no_distance"
            THEN [originIndex |-> i, destinationIndex |-> j, condition |-> "ROUTE_EXISTS",
                  duration |-> secs]
        ELSE IF special /\ prov.kind = "no_condition"
            THEN [originIndex |-> i, destinationIndex |-> j,
                  duration |-> secs, distanceMeters |-> dist]
        ELSE IF special /\ prov.kind = "no_index"
            THEN [destinationIndex |-> j, condition |-> "ROUTE_EXISTS",
                  duration |-> secs, distanceMeters |-> dist]
        ELSE IF special /\ prov.kind = "index_out"
            THEN [originIndex |-> i + MAX_BLOCK, destinationIndex |-> j,
                  condition |-> "ROUTE_EXISTS", duration |-> secs, distanceMeters |-> dist]
        ELSE IF special /\ prov.kind = "error_in_element"
            THEN [originIndex |-> i, destinationIndex |-> j, error |-> "INTERNAL"]
        ELSE [originIndex |-> i, destinationIndex |-> j, condition |-> "ROUTE_EXISTS",
              duration |-> secs, distanceMeters |-> dist]

\* The answer to the request for origin block oi and destination block di,
\* of no origins and nd destinations: net is "timeout" when no answer
\* comes; otherwise status is the HTTP status and the text is, in the
\* encoding form, the objects items, whole or cut short; leads[k] is the key
\* that directly follows the opening brace of object k in the text ("" when
\* white space follows the brace).
ProviderResponse(prov, oi, di, no, nd) ==
    LET base_i == oi * MAX_BLOCK
        base_j == di * MAX_BLOCK
        hit == /\ prov.at[1] \in base_i..(base_i + no - 1)
               /\ prov.at[2] \in base_j..(base_j + nd - 1)
        all == [k \in 1..(no * nd) |->
                   ProviderElement(prov, base_i + ((k - 1) \div nd), base_j + ((k - 1) % nd),
                                   ((k - 1) \div nd), ((k - 1) % nd))]
        items == SelectSeq(all, LAMBDA o : "omitted" \notin DOMAIN o)
        answer(status, its, lead, text) ==
            [net |-> "ok", status |-> status, form |-> prov.form, text |-> text,
             items |-> its, leads |-> [k \in 1..Len(its) |-> lead]]
    IN  IF hit /\ prov.kind = "timeout"
            THEN [net |-> "timeout", status |-> 0, form |-> prov.form, text |-> "whole",
                  items |-> <<>>, leads |-> <<>>]
        ELSE IF hit /\ prov.kind = "http_error"
            THEN answer(403, <<[error |-> "PERMISSION_DENIED"]>>, "error", "whole")
        ELSE IF hit /\ prov.kind = "error_payload"
            THEN answer(200, <<[error |-> "INTERNAL"]>>, "error", "whole")
        ELSE IF hit /\ prov.kind = "error_spaced"
            THEN answer(200, <<[error |-> "INTERNAL"]>>, "", "whole")
        ELSE IF hit /\ prov.kind = "truncated"
            THEN answer(200, items, "originIndex", "truncated")
        ELSE answer(200, items, "originIndex", "whole")

(***************************************************************************)
(* matrix_service._parse_route_matrix_text                                 *)
(***************************************************************************)
\* The NDJSON loop over the lines, from line k on: a line that starts with
\* {"error" raises 502, a line that is no JSON (the last one of a text cut
\* short) raises 502, any other line is appended.
RECURSIVE ParseLines(_, _, _)
ParseLines(resp, k, out) ==
    IF k > Len(resp.items) THEN Returned(out)
    ELSE IF resp.leads[k] = "error" THEN HTTPException(502, "error payload")
    ELSE IF resp.text = "truncated" /\ k = Len(resp.items)
        THEN HTTPException(502, "Bad JSON line from Routes API")
    ELSE ParseLines(resp, k + 1, Append(out, resp.items[k]))

_parse_route_matrix_text(resp) ==
    IF resp.items = <<>> THEN Returned(<<>>)
    ELSE IF resp.form = "array"
        THEN IF resp.text = "truncated" THEN Raised("JSONDecodeError")
             ELSE IF "error" \in DOMAIN resp.items[1]
                 THEN HTTPException(502, "error payload")
                 ELSE Returned(resp.items)
    ELSE ParseLines(resp, 1, <<>>)

(***************************************************************************)
(* matrix_service._compute_block                                           *)
(***************************************************************************)
SENTINEL_MINUTES == 1000000
SENTINEL_METERS == 1000000000

\* Python int(round(secs / 60)): round half to even.
RoundMinutes(secs) ==
    LET q == secs \div 60
        r == secs % 60
    IN  IF 2 * r < 60 THEN q
        ELSE IF 2 * r > 60 THEN q + 1
        ELSE IF q % 2 = 0 THEN q ELSE q + 1

\* A Python list index: i in -n..n-1 addresses an element (a negative one
\* counts from the end), any other raises IndexError.
ListIndex(i, n) == IF i < 0 THEN i + n ELSE i

\* One iteration of the loop over the parsed elements of a block of no
\* origins and nd destinations: blk is the pair of partial matrices, a cell
\* outside their domains being None.
ApplyElement(blk, obj, no, nd) ==
    IF "originIndex" \notin DOMAIN obj \/ "destinationIndex" \notin DOMAIN obj
        THEN Raised("KeyError")
    ELSE
    LET oi == obj.originIndex
        di == obj.destinationIndex
        cell == <<ListIndex(oi, no), ListIndex(di, nd)>>
        cond == IF "condition" \in DOMAIN obj THEN obj.condition ELSE "ROUTE_EXISTS"
        exists == /\ cond = "ROUTE_EXISTS"
                  /\ "duration" \in DOMAIN obj
                  /\ "distanceMeters" \in DOMAIN obj
    IN  IF oi \notin (-no)..(no - 1) \/ di \notin (-nd)..(nd - 1)
            THEN Raised("IndexError")
        ELSE Returned(
            [minutes |-> [c \in DOMAIN blk.minutes \cup {cell} |->
                             IF c = cell THEN IF exists THEN RoundMinutes(obj.duration)
                                                        ELSE SENTINEL_MINUTES
                                         ELSE blk.minutes[c]],
             meters  |-> [c \in DOMAIN blk.meters \cup {cell} |->
                             IF c = cell THEN IF exists THEN obj.distanceMeters
                                                        ELSE SENTINEL_METERS
                                         ELSE blk.meters[c]]])

\* The loop, from element k on: the matrices, or the first exception.
RECURSIVE ApplyElements(_, _, _, _, _)
ApplyElements(blk, items, k, no, nd) ==
    IF k > Len(items) THEN Returned(blk)
    ELSE LET r == ApplyElement(blk, items[k], no, nd)
         IN  IF r.kind # "ok" THEN r
             ELSE ApplyElements(r.value, items, k + 1, no, nd)

\* "Fill any None".
FillNone(blk, no, nd) ==
    LET cells == (0..(no - 1)) \X (0..(nd - 1))
    IN  [minutes |-> [c \in cells |-> IF c \in DOMAIN blk.minutes
                                          THEN blk.minutes[c] ELSE SENTINEL_MINUTES],
         meters  |-> [c \in cells |-> IF c \in DOMAIN blk.meters
                                          THEN blk.meters[c] ELSE SENTINEL_METERS]]

\* resp is what requests.post meets, prov.api_key the environment.
_compute_block(origins, destinations, resp, prov) ==
    IF _get_key(prov).kind = "error" THEN _get_key(prov)
    ELSE IF resp.net = "timeout" THEN Raised("Timeout")
    ELSE IF resp.status >= 400 THEN HTTPException(502, "Routes API HTTP error")
    ELSE LET parsed == _parse_route_matrix_text(resp)
             empty == [minutes |-> <<>>, meters |-> <<>>]
         IN  IF parsed.kind # "ok" THEN parsed
             ELSE LET filled == ApplyElements(empty, parsed.value, 1,
                                              Len(origins), Len(destinations))
                  IN  IF filled.kind # "ok" THEN filled
                      ELSE Returned(FillNone(filled.value, Len(origins), Len(destinations)))

(***************************************************************************)
(* matrix_service._chunks                                                  *)
(***************************************************************************)
NumChunks(n, size) == (n + size - 1) \div size
\* The k-th chunk (k counted from 0, as enumerate does) of lst.
_chunks(lst, size, k) == SubSeq(lst, k * size + 1, Min2((k + 1) * size, Len(lst)))

(***************************************************************************)
(* matrix_service.build_matrix                                             *)
(***************************************************************************)
\* The loop over the points, from point k on, as far as it runs without
\* waiting: the coordinates of every point, or the first error, or the
\* point k whose address is being geocoded (the thread is in requests.get
\* of geocode, the key being set) with the coordinates found so far.  An
\* address that is None or "" is no address.
RECURSIVE ResolveUntilWait(_, _, _, _, _)
ResolveUntilWait(points, require_coords, prov, k, coords) ==
    IF k > Len(points) THEN Returned(coords)
    ELSE LET p == points[k]
         IN  IF p.lat # None /\ p.lng # None
                 THEN ResolveUntilWait(points, require_coords, prov, k + 1,
                                       Append(coords, <<p.lat[1], p.lng[1]>>))
             ELSE IF require_coords
                 THEN HTTPException(400, "missing lat/lng (geocoding disabled)")
             ELSE IF p.address # None /\ p.address[1] # ""
                 THEN IF _get_key(prov).kind = "error" THEN _get_key(prov)
                      ELSE [kind |-> "wait", k |-> k, coords |-> coords]
             ELSE HTTPException(400, "missing both (lat,lng) and address")

\* The whole loop over the points, from point k on: the coordinates of
\* every point, or the first error.
RECURSIVE ResolveCoords(_, _, _, _, _)
ResolveCoords(points, require_coords, prov, k, coords) ==
    LET r == ResolveUntilWait(points, require_coords, prov, k, coords)
    IN  IF r.kind # "wait" THEN r
        ELSE LET g == geocode(points[r.k].address[1], prov)
             IN  IF g.kind # "ok" THEN g
                 ELSE ResolveCoords(points, require_coords, prov, r.k + 1,
                                    Append(r.coords, g.value))

\* The four assignment loops that copy a block into the full matrices.
MergeBlockTransposed(mats, blk, oi, di, no, nd) ==
    LET base_i == oi * MAX_BLOCK
        base_j == di * MAX_BLOCK
        N == Cardinality(DOMAIN mats.minutes)
        inblk(r, c) == /\ r \in base_i..(base_i + no - 1)
                       /\ c \in base_j..(base_j + nd - 1)
    IN  [minutes |-> [r \in 0..(N - 1) |-> [c \in 0..(N - 1) |->
                         IF inblk(c, r) THEN blk.minutes[<<c - base_i, r - base_j>>]
                                        ELSE mats.minutes[r][c]]],
         meters  |-> [r \in 0..(N - 1) |-> [c \in 0..(N - 1) |->
                         IF inblk(c, r) THEN blk.meters[<<c - base_i, r - base_j>>]
                                        ELSE mats.meters[r][c]]]]
MergeBlock(mats, blk, oi, di, no, nd) ==
    LET base_i == oi * MAX_BLOCK
        base_j == di * MAX_BLOCK
        N == Cardinality(DOMAIN mats.minutes)
        inblk(r, c) == /\ r \in base_i..(base_i + no - 1)
                       /\ c \in base_j..(base_j + nd - 1)
    IN  [minutes |-> [r \in 0..(N - 1) |-> [c \in 0..(N - 1) |->
                         IF inblk(r, c) THEN blk.minutes[<<r - base_i, c - base_j>>]
                                        ELSE mats.minutes[r][c]]],
         meters  |-> [r \in 0..(N - 1) |-> [c \in 0..(N - 1) |->
                         IF inblk(r, c) THEN blk.meters[<<r - base_i, c - base_j>>]
                                        ELSE mats.meters[r][c]]]]

\* One turn of the block loops, k counting the (origin block, destination
\* block) pairs in the order of the loops: the request for the pair and
\* the merge of its block into mats, or the error of the request.
BlockStep(coords, prov, k, mats) ==
    LET nb == NumChunks(Len(coords), MAX_BLOCK)
        oi == k \div nb
        di == k % nb
        o_block == _chunks(coords, MAX_BLOCK, oi)
        d_block == _chunks(coords, MAX_BLOCK, di)
        resp == ProviderResponse(prov, oi, di, Len(o_block), Len(d_block))
        blk == _compute_block(o_block, d_block, resp, prov)
    IN  IF blk.kind # "ok" THEN blk
        ELSE Returned(MergeBlock(mats, blk.value, oi, di, Len(o_block), Len(d_block)))

\* The block loops are exhausted: every pair has been computed and merged.
BlocksDoneEarly(coords, k) == k >= 1
BlocksDone(coords, k) ==
    k >= NumChunks(Len(coords), MAX_BLOCK) * NumChunks(Len(coords), MAX_BLOCK)

\* The batch requests one _compute_block call sends: requests.post (line
\* 99) is reached when _get_key (line 83) has returned.
Posts(prov) == IF _get_key(prov).kind = "ok" THEN 1 ELSE 0

\* The block loops from turn k on, run without a pause: their outcome and
\* the number of batch requests sent.
RECURSIVE BuildBlocks(_, _, _, _, _)
BuildBlocks(coords, prov, k, mats, requests) ==
    IF BlocksDone(coords, k) THEN [outcome |-> Returned(mats), requests |-> requests]
    ELSE LET r == BlockStep(coords, prov, k, mats)
         IN  IF r.kind # "ok" THEN [outcome |-> r, requests |-> requests + Posts(prov)]
             ELSE BuildBlocks(coords, prov, k + 1, r.value, requests + Posts(prov))

\* ids.append(str(p["id"])): the ids are strings (the endpoint declares
\* id: str), which str() returns as they are.
Ids(points) == [k \in 1..Len(points) |-> points[k].id]

\* The zero matrices of lines 149-150.
ZeroMatrices(N) ==
    LET zeros == [r \in 0..(N - 1) |-> [c \in 0..(N - 1) |-> 0]]
    IN  [minutes |-> zeros, meters |-> zeros]
\* _cache[key] = res
CacheStore(cache, key, res) ==
    [k \in DOMAIN cache \cup {key} |-> IF k = key THEN res ELSE cache[k]]

\* The whole call when no other call runs in the meantime: its outcome,
\* the cache it leaves, the key it computed (None when the coordinates could
\* not be resolved), whether the key was found in the cache, and the number
\* of batch requests it sent.
build_matrix(points, departure_time, routing_preference, require_coords, prov, cache) ==
    LET resolved == ResolveCoords(points, require_coords, prov, 1, <<>>)
    IN  IF resolved.kind # "ok"
            THEN [outcome |-> resolved, cache |-> cache, key |-> None,
                  hit |-> FALSE, requests |-> 0]
        ELSE
        LET coords == resolved.value
            key == _cache_key(coords, departure_time, routing_preference)
        IN  IF key \in DOMAIN cache
                THEN [outcome |-> Returned(cache[key]), cache |-> cache, key |-> Some(key),
                      hit |-> TRUE, requests |-> 0]
            ELSE
            LET built == BuildBlocks(coords, prov, 0, ZeroMatrices(Len(coords)), 0)
            IN  IF built.outcome.kind # "ok"
                    THEN [outcome |-> built.outcome, cache |-> cache, key |-> Some(key),
                          hit |-> FALSE, requests |-> built.requests]
                ELSE
                LET res == [ids |-> Ids(points),
                            minutes |-> built.outcome.value.minutes,
                            meters |-> built.outcome.value.meters]
                IN  [outcome |-> Returned(res), cache |-> CacheStore(cache, key, res),
                     key |-> Some(key), hit |-> FALSE, requests |-> built.requests]

(***************************************************************************)
(* The build_matrix calls explored.                                        *)
(***************************************************************************)
Point(id, lat, lng, address) == [id |-> id, lat |-> lat, lng |-> lng, address |-> address]
Request(points, departure_time, routing_preference, require_coords) ==
    [points |-> points, departure_time |-> departure_time,
     routing_preference |-> routing_preference, require_coords |-> require_coords]
\* A provider behaviour, the key being set and the geocoder answering.
Provider(kind, at, traffic, form) ==
    [kind |-> kind, at |-> at, traffic |-> traffic, form |-> form,
     geo |-> "ok", api_key |-> TRUE]
\* The same with the geocoder behaving as geo and the key set or not.
Environment(prov, geo, api_key) == [prov EXCEPT !.geo = geo, !.api_key = api_key]

StopA  == Point("1", Some(0), Some(0), None)
StopA2 == Point("11", Some(4), Some(1), None)          \* rounds to the coordinates of A
StopA5 == Point("15", Some(5), Some(0), None)          \* a tie that rounds to the coordinates of A
StopN  == Point("12", Some(-4), Some(0), None)         \* rounds to (-0.0, 0.0)
StopB  == Point("2", Some(16), Some(9), None)
StopC  == Point("3", Some(20), Some(30), None)
StopG  == Point("7", None, None, Some("marunouchi"))   \* geocoded, rounds to the coordinates of A
StopH  == Point("8", Some(7), None, Some("nowhere"))   \* lng missing, address not found
StopX  == Point("9", None, None, None)
StopE  == Point("5", None, None, Some(""))             \* an empty address

Departures == { None, Some("2030-01-01T00:00:00Z") }

\* SpecMatrix: a few stop lists, some of them resolving to the same rounded
\* coordinates, built again and again against the shared cache.
CacheRequests ==
    { Request(points, None, "TRAFFIC_AWARE", FALSE) :
          points \in { <<>>, <<StopA, StopB, StopC>>, <<StopA2, StopB, StopC>>,
                       <<StopA5, StopB, StopC>>, <<StopN, StopB, StopC>>,
                       <<StopA, StopX>>, <<StopH>>, <<StopE>> } }
    \cup
    { Request(<<StopG, StopB, StopC>>, None, "TRAFFIC_AWARE", rc) : rc \in BOOLEAN }
    \cup
    { Request(<<StopA, StopB, StopC>>, Some("2030-01-01T00:00:00Z"), "TRAFFIC_AWARE", FALSE),
      Request(<<StopA, StopB, StopC>>, None, "TRAFFIC_UNAWARE", FALSE) }

CacheProviders(n) ==
    { Provider("route", <<0, 0>>, 0, "array"), Provider("route", <<0, 0>>, 1, "ndjson"),
      Environment(Provider("route", <<0, 0>>, 0, "array"), "http_error", TRUE),
      Environment(Provider("route", <<0, 0>>, 0, "array"), "ok", FALSE) }
    \cup
    IF n = 0 THEN {}
    ELSE { Provider("http_error", <<n - 1, n - 1>>, 0, "array"),
           Provider("error_payload", <<0, n - 1>>, 0, "ndjson"),
           Provider("error_spaced", <<0, n - 1>>, 0, "ndjson"),
           Provider("timeout", <<n - 1, 0>>, 0, "array") }

\* SpecBlocks: one build of the first n stops of a line of stops, against
\* every provider behaviour.
LineStop(k) == Point(ToString(k), Some(100 * k), Some(100 * k + 13), None)
LineStops(n) == [k \in 1..n |-> LineStop(k - 1)]

BlockProviders(n) ==
    { Provider("route", <<0, 0>>, t, f) : t \in {0, 1}, f \in {"array", "ndjson"} }
    \cup
    { Provider(k, <<i, j>>, t, f) :
          k \in ElementKinds \cup ErrorKinds \cup FailureKinds,
          i \in 0..(n - 1), j \in 0..(n - 1),
          t \in {0, 1}, f \in {"array", "ndjson"} }

\* SpecRace: calls served at the same time, two of the stop lists sharing
\* their key.
RaceRequests ==
    { Request(points, None, "TRAFFIC_AWARE", FALSE) :
          points \in { <<StopA, StopB, StopC>>, <<StopG, StopB, StopC>>,
                       <<StopA, StopX>> } }
RaceProviders(n) ==
    { Provider("route", <<0, 0>>, 0, "array"), Provider("route", <<0, 0>>, 1, "ndjson"),
      Provider("http_error", <<n - 1, n - 1>>, 0, "array") }

\* The record of a call that has ended: its arguments, the behaviour it
\* met, its outcome, its key (None when the coordinates could not be
\* resolved), whether it found the key in the cache, the number of batch
\* requests it sent, and whether its store replaced an entry.
Ended(req, prov, outcome, key, hit, requests, overwrote) ==
    [req |-> req, prov |-> prov, outcome |-> outcome, key |-> key, hit |-> hit,
     requests |-> requests, overwrote |-> overwrote]
NoBuild == Ended(Request(<<>>, None, "", FALSE), Provider("route", <<0, 0>>, 0, "array"),
                 [kind |-> "none"], None, FALSE, 0, FALSE)
NoSolve == [outcome |-> [kind |-> "none"]]
\* A worker thread that serves no call.
NoThread == [pc |-> "idle"]

Init ==
    /\ _cache = <<>>
    /\ mcalls = 0
    /\ mlast = NoBuild
    /\ scalls = 0
    /\ slast = NoSolve
    /\ threads = [t \in 1..MaxThreads |-> NoThread]

(***************************************************************************)
(* build_matrix on a worker thread.  The endpoint is a plain def, which    *)
(* the framework runs on a pool of worker threads; _cache is a             *)
(* module-level dict shared by them, read and written without a lock.  A   *)
(* dict membership test, a dict read and a dict store are each atomic in   *)
(* the interpreter; a thread can be preempted between any two of them and  *)
(* while it waits for a provider (requests.get of geocode, requests.post   *)
(* of _compute_block).  ids, coords, minutes and meters are locals of the  *)
(* call.  A call is five kinds of steps; mlast records the call that ended *)
(* last.                                                                   *)
(***************************************************************************)
\* The call of thread t goes on from the loop over the points, which ran
\* without a wait as far as r (see ResolveUntilWait): it waits for the
\* geocoder, or ends with the error of the loop, or (lines 144-150) computes
\* the key and tests "key in _cache"; on a miss it allocates the zero
\* matrices and enters the block loops, where the first _compute_block
\* raises at once when the key is not set (line 83, nothing is sent).
BuildResume(t, req, prov, r) ==
    IF r.kind = "wait"
        THEN /\ threads' = [threads EXCEPT ![t] =
                    [pc |-> "geocode", req |-> req, prov |-> prov,
                     k |-> r.k, coords |-> r.coords]]
             /\ UNCHANGED mlast
    ELSE IF r.kind # "ok"
        THEN /\ mlast' = Ended(req, prov, r, None, FALSE, 0, FALSE)
             /\ threads' = [threads EXCEPT ![t] = NoThread]
    ELSE
    LET coords == r.value
        key == _cache_key(coords, req.departure_time, req.routing_preference)
    IN  IF key \in DOMAIN _cache
            THEN /\ threads' = [threads EXCEPT ![t] =
                        [pc |-> "hit", req |-> req, prov |-> prov, key |-> key]]
                 /\ UNCHANGED mlast
        ELSE IF ~BlocksDone(coords, 0) /\ _get_key(prov).kind = "error"
            THEN /\ mlast' = Ended(req, prov, _get_key(prov), Some(key), FALSE, 0, FALSE)
                 /\ threads' = [threads EXCEPT ![t] = NoThread]
        ELSE /\ threads' = [threads EXCEPT ![t] =
                    [pc |-> "blocks", req |-> req, prov |-> prov, key |-> key,
                     coords |-> coords, k |-> 0, requests |-> 0,
                     mats |-> ZeroMatrices(Len(coords))]]
             /\ UNCHANGED mlast

\* Lines 131-150 on thread t, as far as they run without a wait.
BuildStart(t, req, prov) ==
    /\ threads[t].pc = "idle"
    /\ BuildResume(t, req, prov,
                   ResolveUntilWait(req.points, req.require_coords, prov, 1, <<>>))
    /\ mcalls' = mcalls + 1
    /\ UNCHANGED <<_cache, scalls, slast>>

\* Lines 29-39 and 140 on thread t: the geocoder has answered (or not, in
\* time) for point k; the call ends with its error or goes on with the
\* next point.
BuildGeocode(t) ==
    LET th == threads[t]
    IN  /\ th.pc = "geocode"
        /\ LET g == geocode(th.req.points[th.k].address[1], th.prov)
           IN  IF g.kind # "ok"
                   THEN BuildResume(t, th.req, th.prov, g)
                   ELSE BuildResume(t, th.req, th.prov,
                            ResolveUntilWait(th.req.points, th.req.require_coords,
                                             th.prov, th.k + 1,
                                             Append(th.coords, g.value)))
        /\ UNCHANGED <<_cache, mcalls, scalls, slast>>

\* Line 146 on thread t: return _cache[key].
BuildReturnCached(t) ==
    LET th == threads[t]
    IN  /\ th.pc = "hit"
        /\ mlast' = Ended(th.req, th.prov, Returned(_cache[th.key]), Some(th.key),
                          TRUE, 0, FALSE)
        /\ threads' = [threads EXCEPT ![t] = NoThread]
        /\ UNCHANGED <<_cache, mcalls, scalls, slast>>

\* Lines 154-159 on thread t: one batch request and the merge of its block.
BuildBlock(t) ==
    LET th == threads[t]
    IN  /\ th.pc = "blocks"
        /\ ~BlocksDone(th.coords, th.k)
        /\ LET r == BlockStep(th.coords, th.prov, th.k, th.mats)
           IN  IF r.kind # "ok"
                   THEN /\ mlast' = Ended(th.req, th.prov, r, Some(th.key), FALSE,
                                          th.requests + Posts(th.prov), FALSE)
                        /\ threads' = [threads EXCEPT ![t] = NoThread]
                   ELSE /\ threads' = [threads EXCEPT ![t] =
                               [th EXCEPT !.k = th.k + 1, !.mats = r.value,
                                          !.requests = th.requests + Posts(th.prov)]]
                        /\ UNCHANGED mlast
        /\ UNCHANGED <<_cache, mcalls, scalls, slast>>

\* Lines 161-163 on thread t: res, _cache[key] = res, return res.
BuildStore(t) ==
    LET th == threads[t]
        res == [ids |-> Ids(th.req.points),
                minutes |-> th.mats.minutes, meters |-> th.mats.meters]
    IN  /\ th.pc = "blocks"
        /\ BlocksDone(th.coords, th.k)
        /\ _cache' = CacheStore(_cache, th.key, res)
        /\ mlast' = Ended(th.req, th.prov, Returned(res), Some(th.key), FALSE,
                          th.requests, th.key \in DOMAIN _cache)
        /\ threads' = [threads EXCEPT ![t] = NoThread]
        /\ UNCHANGED <<mcalls, scalls, slast>>

\* The calls of SpecMatrix.
BuildMatrixCall(t) ==
    /\ mcalls < MaxBuilds
    /\ \E req \in CacheRequests : \E prov \in CacheProviders(Len(req.points)) :
           BuildStart(t, req, prov)

\* The one call of SpecBlocks.
BuildMatrixOnce(t) ==
    /\ mcalls = 0
    /\ \E n \in 0..MaxStops, dep \in Departures : \E prov \in BlockProviders(n) :
           BuildStart(t, Request(LineStops(n), dep, "TRAFFIC_AWARE", TRUE), prov)

\* The calls of SpecRace.
RaceCall(t) ==
    /\ mcalls < MaxBuilds
    /\ \E req \in RaceRequests : \E prov \in RaceProviders(Len(req.points)) :
           BuildStart(t, req, prov)

(***************************************************************************)
(* routing_service.solve_routes: the model handed to OR-Tools.             *)
(*                                                                         *)
(* A solution of the routing model is sol = [routes, slack]: routes[v + 1] *)
(* is the sequence of nodes vehicle v visits between its start and its end *)
(* (both the depot), and slack is the waiting time the solver puts at each *)
(* visit.  Every node other than the depot is visited exactly once.        *)
(***************************************************************************)
SLACK_MAX == 30
HORIZON == 1440

\* manager.IndexToNode along the route of one vehicle: start, visits, end.
Path(route, depot_index) == <<depot_index>> \o route \o <<depot_index>>

\* time_callback
time_callback(minutes, from_node, to_node) == minutes[from_node][to_node]

\* demand_callback: the scan of the pairs, from pair k on.
RECURSIVE demand_scan(_, _, _)
demand_scan(node, pickup_drop_pairs, k) ==
    IF k > Len(pickup_drop_pairs) THEN 0
    ELSE IF node = pickup_drop_pairs[k][1] THEN 1
    ELSE IF node = pickup_drop_pairs[k][2] THEN -1
    ELSE demand_scan(node, pickup_drop_pairs, k + 1)
\* (the scan started past the last pair)
demand_callback_none(node, pickup_drop_pairs) ==
    demand_scan(node, pickup_drop_pairs, Len(pickup_drop_pairs) + 1)
demand_callback(node, pickup_drop_pairs) == demand_scan(node, pickup_drop_pairs, 1)

\* The cumul variables of the "Time" dimension along a path: start cumul 0,
\* then cumul + transit + slack.
TimeCumuls(path, minutes, slack) ==
    LET T[i \in 1..Len(path)] ==
            IF i = 1 THEN 0
            ELSE T[i - 1] + time_callback(minutes, path[i - 1], path[i]) + slack
    IN  T
\* The cumul variables of the "Capacity" dimension along a path: start
\* cumul 0, then cumul + demand of the node left, no slack.
LoadCumuls(path, pickup_drop_pairs) ==
    LET L[i \in 1..Len(path)] ==
            IF i = 1 THEN 0
            ELSE L[i - 1] + demand_callback(path[i - 1], pickup_drop_pairs)
    IN  L

\* AddDimension(transit_cb_idx, 30, 1440, True, "Time"): every cumul of the
\* dimension lies in [0, 1440].
TimeDimensionNoHorizon(sol, minutes, depot_index) == TRUE
TimeDimension(sol, minutes, depot_index) ==
    \A v \in 1..Len(sol.routes) :
        LET path == Path(sol.routes[v], depot_index)
            T == TimeCumuls(path, minutes, sol.slack)
        IN  \A i \in 1..Len(path) : 0 <= T[i] /\ T[i] <= HORIZON

\* AddDimensionWithVehicleCapacity(demand_cb_idx, 0, [vehicle_capacity] *
\* vehicle_count, True, "Capacity"): every cumul lies in [0, vehicle_capacity].
CapacityDimensionOffByOne(sol, pickup_drop_pairs, vehicle_capacity, depot_index) ==
    \A v \in 1..Len(sol.routes) :
        LET path == Path(sol.routes[v], depot_index)
            L == LoadCumuls(path, pickup_drop_pairs)
        IN  \A i \in 1..Len(path) : 0 <= L[i] /\ L[i] <= vehicle_capacity + 1
CapacityDimension(sol, pickup_drop_pairs, vehicle_capacity, depot_index) ==
    \A v \in 1..Len(sol.routes) :
        LET path == Path(sol.routes[v], depot_index)
            L == LoadCumuls(path, pickup_drop_pairs)
        IN  \A i \in 1..Len(path) : 0 <= L[i] /\ L[i] <= vehicle_capacity

\* manager.NodeToIndex, as the place of a node in a solution: the vehicle
\* whose path holds the node and its position on that path.  The depot is
\* the start of the first vehicle.
VehicleOf(sol, node, depot_index) ==
    IF node = depot_index THEN 1
    ELSE CHOOSE v \in 1..Len(sol.routes) :
             \E i \in 1..Len(sol.routes[v]) : sol.routes[v][i] = node
PositionOf(sol, node, depot_index) ==
    IF node = depot_index THEN 1
    ELSE LET route == sol.routes[VehicleOf(sol, node, depot_index)]
         IN  1 + CHOOSE i \in 1..Len(route) : route[i] = node

\* The loop over the pairs.
\* routing.AddPickupAndDelivery(p_i, d_i): on a path that holds both, the
\* pickup precedes the delivery.
AddPickupAndDelivery(routes, pickup_drop_pairs, depot_index) ==
    LET s == [routes |-> routes, slack |-> 0]
    IN  \A k \in 1..Len(pickup_drop_pairs) :
            LET p == pickup_drop_pairs[k][1]
                d == pickup_drop_pairs[k][2]
            IN  VehicleOf(s, p, depot_index) = VehicleOf(s, d, depot_index)
                    => PositionOf(s, p, depot_index) < PositionOf(s, d, depot_index)
\* routing.VehicleVar(p_i) == routing.VehicleVar(d_i)
SameVehicleDropped(routes, pickup_drop_pairs, depot_index) == TRUE
SameVehicle(routes, pickup_drop_pairs, depot_index) ==
    LET s == [routes |-> routes, slack |-> 0]
    IN  \A k \in 1..Len(pickup_drop_pairs) :
            VehicleOf(s, pickup_drop_pairs[k][1], depot_index)
                = VehicleOf(s, pickup_drop_pairs[k][2], depot_index)
\* time_dim.CumulVar(p_i) <= time_dim.CumulVar(d_i)
PickupTimeBeforeDrop(sol, minutes, pickup_drop_pairs, depot_index) ==
    \A k \in 1..Len(pickup_drop_pairs) :
        LET p == pickup_drop_pairs[k][1]
            d == pickup_drop_pairs[k][2]
            Tp == TimeCumuls(Path(sol.routes[VehicleOf(sol, p, depot_index)], depot_index),
                             minutes, sol.slack)
            Td == TimeCumuls(Path(sol.routes[VehicleOf(sol, d, depot_index)], depot_index),
                             minutes, sol.slack)
        IN  Tp[PositionOf(sol, p, depot_index)] <= Td[PositionOf(sol, d, depot_index)]

\* The assignments of the nodes to vehicle paths: an order of the nodes
\* other than the depot, cut into vehicle_count consecutive routes.
Orders(nodes) ==
    { f \in [1..Cardinality(nodes) -> nodes] :
          \A a, b \in 1..Cardinality(nodes) : a # b => f[a] # f[b] }
Cuts(m, vehicle_count) ==
    { c \in [0..vehicle_count -> 0..m] :
          /\ c[0] = 0 /\ c[vehicle_count] = m
          /\ \A v \in 1..vehicle_count : c[v - 1] <= c[v] }
Assignments(node_count, vehicle_count, depot_index) ==
    LET nodes == (0..(node_count - 1)) \ {depot_index}
    IN  { [v \in 1..vehicle_count |-> SubSeq(order, c[v - 1] + 1, c[v])] :
              order \in Orders(nodes), c \in Cuts(Cardinality(nodes), vehicle_count) }

\* routing.SolveWithParameters(search_params): None, or an assignment that
\* satisfies every constraint of the model.  The search is a heuristic
\* under a time limit: it may return any such assignment, and it may fail
\* to find one that exists.
SolveWithParameters(node_count, minutes, pickup_drop_pairs, vehicle_count, vehicle_capacity, depot_index) ==
    LET routes_ok ==
            { a \in Assignments(node_count, vehicle_count, depot_index) :
                  /\ CapacityDimension([routes |-> a, slack |-> 0], pickup_drop_pairs,
                                       vehicle_capacity, depot_index)
                  /\ SameVehicle(a, pickup_drop_pairs, depot_index)
                  /\ AddPickupAndDelivery(a, pickup_drop_pairs, depot_index) }
    IN  { None }
        \cup
        { Some(sol) : sol \in
            { s \in [routes : routes_ok, slack : {0, SLACK_MAX}] :
                  /\ TimeDimension(s, minutes, depot_index)
                  /\ PickupTimeBeforeDrop(s, minutes, pickup_drop_pairs, depot_index) } }

\* "Extract detailed routes": the walk along the route of vehicle v
\* (counted from 0), the end node included.
\* (the walk that stops before the end node)
ExtractRouteNoEnd(ids, minutes, pickup_drop_pairs, depot_index, sol, v) ==
    LET path == Path(sol.routes[v + 1], depot_index)
        T == TimeCumuls(path, minutes, sol.slack)
        L == LoadCumuls(path, pickup_drop_pairs)
        vehicle_route == [i \in 1..(Len(path) - 1) |->
                             [stop_id |-> ids[path[i] + 1],
                              load_at_stop |-> L[i],
                              time_min |-> T[i]]]
        Max[i \in 0..(Len(path) - 1)] ==
            IF i = 0 THEN 0 ELSE Max2(Max[i - 1], L[i])
    IN  [vehicle_id |-> v,
         stops |-> vehicle_route,
         total_travel_time_min |-> vehicle_route[Len(path) - 1].time_min,
         max_load |-> Max[Len(path) - 1]]
ExtractRoute(ids, minutes, pickup_drop_pairs, depot_index, sol, v) ==
    LET path == Path(sol.routes[v + 1], depot_index)
        T == TimeCumuls(path, minutes, sol.slack)
        L == LoadCumuls(path, pickup_drop_pairs)
        vehicle_route == [i \in 1..Len(path) |->
                             [stop_id |-> ids[path[i] + 1],
                              load_at_stop |-> L[i],
                              time_min |-> T[i]]]
        Max[i \in 0..(Len(path) - 1)] ==
            IF i = 0 THEN 0 ELSE Max2(Max[i - 1], L[i])
    IN  [vehicle_id |-> v,
         stops |-> vehicle_route,
         total_travel_time_min |-> vehicle_route[Len(path)].time_min,
         max_load |-> Max[Len(path) - 1]]

\* The pairs whose two indices are nodes of the manager.
PairsInRange(node_count, pickup_drop_pairs) ==
    \A k \in 1..Len(pickup_drop_pairs) :
        /\ pickup_drop_pairs[k][1] \in 0..(node_count - 1)
        /\ pickup_drop_pairs[k][2] \in 0..(node_count - 1)

\* What a call can do when a pair index is no node: manager.NodeToIndex
\* reads outside its table (undefined in the native library), and the index
\* it yields is used to address the model's variables.  The call never
\* validates the index, so it ends in a crash of the process or in a
\* native exception, not in an HTTPException.
NativeFailures == { [kind |-> "crash"], [kind |-> "exception"] }

\* The call, solution being what SolveWithParameters returned.
solve_routes(ids, minutes, pickup_drop_pairs, vehicle_count, vehicle_capacity, depot_index, solution) ==
    IF solution = None THEN HTTPException(500, "No feasible route found")
    ELSE Returned([routes |->
             [k \in 1..vehicle_count |->
                 ExtractRoute(ids, minutes, pickup_drop_pairs, depot_index,
                              solution[1], k - 1)]])

(***************************************************************************)
(* The solve_routes calls explored.                                        *)
(***************************************************************************)
StopIds == <<"DEPOT", "R001_P", "R001_D", "R002_P", "R002_D">>

SolveRequest(n, pickup_drop_pairs) == [n |-> n, pickup_drop_pairs |-> pickup_drop_pairs]
\* Stop counts with their pairs: no pair, one pair (with and without a
\* stop outside every pair, in both index orders, the depot as pickup and
\* as drop), two pairs, and pairs with an index that is no stop.
SolveRequests ==
    { SolveRequest(1, <<>>), SolveRequest(3, <<>>),
      SolveRequest(3, << <<1, 2>> >>), SolveRequest(3, << <<2, 1>> >>),
      SolveRequest(4, << <<1, 2>> >>), SolveRequest(4, << <<3, 1>> >>),
      SolveRequest(2, << <<0, 1>> >>), SolveRequest(2, << <<1, 0>> >>),
      SolveRequest(5, << <<1, 2>>, <<3, 4>> >>),
      SolveRequest(5, << <<4, 3>>, <<2, 1>> >>),
      SolveRequest(5, << <<1, 3>>, <<4, 2>> >>),
      SolveRequest(3, << <<1, 3>> >>), SolveRequest(3, << <<-1, 1>> >>),
      SolveRequest(5, << <<1, 2>>, <<5, 4>> >>) }

\* Travel times: base minutes between two different stops, 0 from a stop
\* to itself, and the sentinel on the arcs of blocked.
Minutes(n, base, blocked) ==
    [i \in 0..(n - 1) |-> [j \in 0..(n - 1) |->
        IF <<i, j>> \in blocked THEN SENTINEL_MINUTES
        ELSE IF i = j THEN 0 ELSE base]]
MinutesMatrices(n) ==
    { Minutes(n, base, {}) : base \in {0, 10, 400} }
    \cup
    { Minutes(n, 10, blocked) :
          blocked \in { {<<0, 1>>}, {<<2, 0>>}, {<<1, 2>>, <<2, 1>>} } }

SolveRoutesCall ==
    /\ scalls = 0
    /\ \E r \in SolveRequests,
          vehicle_count \in 1..MaxVehicles, vehicle_capacity \in 0..MaxCapacity :
         \E minutes \in MinutesMatrices(r.n) :
            LET ids == SubSeq(StopIds, 1, r.n)
                req == [ids |-> ids, minutes |-> minutes,
                        pickup_drop_pairs |-> r.pickup_drop_pairs,
                        vehicle_count |-> vehicle_count,
                        vehicle_capacity |-> vehicle_capacity]
            IN  IF PairsInRange(r.n, r.pickup_drop_pairs)
                    THEN \E solution \in SolveWithParameters(r.n, minutes,
                                             r.pickup_drop_pairs, vehicle_count,
                                             vehicle_capacity, 0) :
                             slast' = [req |-> req, solution |-> solution,
                                       outcome |-> solve_routes(ids, minutes,
                                           r.pickup_drop_pairs, vehicle_count,
                                           vehicle_capacity, 0, solution)]
                    ELSE \E failure \in NativeFailures :
                             slast' = [req |-> req, solution |-> None, outcome |-> failure]
    /\ scalls' = scalls + 1
    /\ UNCHANGED <<_cache, mcalls, mlast, threads>>

\* The calls that name their depot: any stop of the request as depot_index.
DepotMatrices(n) == { Minutes(n, 10, {}), Minutes(n, 10, {<<0, 1>>}) }
SolveRoutesDepotCall ==
    /\ scalls = 0
    /\ \E r \in SolveRequests,
          vehicle_count \in 1..MaxVehicles, vehicle_capacity \in 0..MaxCapacity :
         \E minutes \in DepotMatrices(r.n), depot_index \in 0..(r.n - 1) :
            LET ids == SubSeq(StopIds, 1, r.n)
                req == [ids |-> ids, minutes |-> minutes,
                        pickup_drop_pairs |-> r.pickup_drop_pairs,
                        vehicle_count |-> vehicle_count,
                        vehicle_capacity |-> vehicle_capacity,
                        depot_index |-> depot_index]
            IN  IF PairsInRange(r.n, r.pickup_drop_pairs)
                    THEN \E solution \in SolveWithParameters(r.n, minutes,
                                             r.pickup_drop_pairs, vehicle_count,
                                             vehicle_capacity, depot_index) :
                             slast' = [req |-> req, solution |-> solution,
                                       outcome |-> solve_routes(ids, minutes,
                                           r.pickup_drop_pairs, vehicle_count,
                                           vehicle_capacity, depot_index, solution)]
                    ELSE \E failure \in NativeFailures :
                             slast' = [req |-> req, solution |-> None, outcome |-> failure]
    /\ scalls' = scalls + 1
    /\ UNCHANGED <<_cache, mcalls, mlast, threads>>

\* Calls made one after the other, on one worker thread (as the tests of
\* the repository make them).
NextMatrix ==
    \/ BuildMatrixCall(1) \/ BuildGeocode(1)
    \/ BuildReturnCached(1) \/ BuildBlock(1) \/ BuildStore(1)
SpecMatrix == Init /\ [][NextMatrix]_vars

\* One call on an empty cache.
NextBlocks == BuildMatrixOnce(1) \/ BuildBlock(1) \/ BuildStore(1)
SpecBlocks == Init /\ [][NextBlocks]_vars

NextSolve == SolveRoutesCall
SpecSolve == Init /\ [][NextSolve]_vars

NextDepot == SolveRoutesDepotCall
SpecDepot == Init /\ [][NextDepot]_vars

\* Calls served at the same time by the worker threads.
NextRace ==
    \E t \in 1..MaxThreads :
        \/ RaceCall(t) \/ BuildGeocode(t)
        \/ BuildReturnCached(t) \/ BuildBlock(t) \/ BuildStore(t)
SpecRace == Init /\ [][NextRace]_vars

(***************************************************************************)
(* Properties of the matrix builder.                                       *)
(***************************************************************************)
Called == mlast.outcome.kind # "none"
IsError(outcome, status) == outcome.kind = "error" /\ outcome.status = status
\* A step in which a call ends: mlast' is the record of that call.
EndsCall ==
    \/ \E t \in 1..MaxThreads : threads[t].pc # "idle" /\ threads'[t].pc = "idle"
    \/ mcalls' = mcalls + 1 /\ threads' = threads

\* The number a key holds for a coordinate.
KeyNumber(j) == IF j.minus THEN -j.digits ELSE j.digits
\* The coordinates of a request, rounded to 6 decimals, its departure time
\* and its routing preference are those a cache key was made from.
SameSignature(k, coords, req) ==
    /\ Len(k.coords) = Len(coords)
    /\ \A n \in 1..Len(coords) :
           /\ KeyNumber(k.coords[n][1]) = Round6(coords[n][1])
           /\ KeyNumber(k.coords[n][2]) = Round6(coords[n][2])
    /\ k.dep = req.departure_time
    /\ k.pref = req.routing_preference

\* C4: a call whose stops resolve to the coordinates (rounded to 6
\* decimals), the departure time and the routing preference of a matrix
\* that an earlier successful call stored returns exactly that matrix and
\* issues no batch request.  (In SpecMatrix the calls follow one another, so
\* the cache at the end of a call holds what the earlier calls stored.)
C4_CacheHitReturnsStored ==
    [][ (EndsCall /\ mlast'.key # None) =>
          LET req == mlast'.req
              coords == ResolveCoords(req.points, req.require_coords, mlast'.prov, 1, <<>>).value
          IN  \A k \in DOMAIN _cache :
                  SameSignature(k, coords, req) =>
                      /\ mlast'.outcome = Returned(_cache[k])
                      /\ mlast'.requests = 0
      ]_vars

\* C5: build_matrix of an empty stop list fails with the invalid-input error
\* (status 400), returns no matrix and adds no entry to the cache.
C5_EmptyListIsInvalidInput ==
    (Called /\ mlast.req.points = <<>>) =>
        /\ IsError(mlast.outcome, 400)
        /\ \A k \in DOMAIN _cache : k.coords # <<>>

\* C6: every matrix build_matrix returns has a zero diagonal in minutes,
\* whatever the provider returned or omitted for the pair (i, i).
C6_ZeroDiagonal ==
    (Called /\ mlast.outcome.kind = "ok") =>
        \A i \in DOMAIN mlast.outcome.value.minutes : mlast.outcome.value.minutes[i][i] = 0

\* What the provider reported for the pair (i, j) of the last build.
Reported(i, j) == ProviderElement(mlast.prov, i, j, i % MAX_BLOCK, j % MAX_BLOCK)
HasRoute(e) ==
    /\ "omitted" \notin DOMAIN e
    /\ "condition" \in DOMAIN e => e.condition = "ROUTE_EXISTS"
    /\ "duration" \in DOMAIN e
    /\ "distanceMeters" \in DOMAIN e
HasNoRoute(e) ==
    \/ "omitted" \in DOMAIN e
    \/ "condition" \in DOMAIN e /\ e.condition # "ROUTE_EXISTS"
\* m is secs / 60 rounded to a nearest integer.
IsRounded(m, secs) == 60 * m - 30 <= secs /\ secs <= 60 * m + 30
BlockCount(n) == CHOOSE b \in 0..n : b * MAX_BLOCK >= n /\ (b = 0 \/ (b - 1) * MAX_BLOCK < n)

\* C7: a cache-miss build of N stops that returns has issued one batch
\* request per (origin-block, destination-block) pair and returns N x N
\* matrices whose entry (i, j) is the provider's value for the pair (i, j)
\* where it reported a route with duration and distance, and the sentinel
\* where it reported no route or omitted the element; every entry is set.
C7_BlocksMergedAtOffsets ==
    (Called /\ mlast.outcome.kind = "ok" /\ ~mlast.hit) =>
        LET N == Len(mlast.req.points)
            res == mlast.outcome.value
        IN  /\ mlast.requests = BlockCount(N) * BlockCount(N)
            /\ DOMAIN res.minutes = 0..(N - 1)
            /\ DOMAIN res.meters = 0..(N - 1)
            /\ \A i \in 0..(N - 1) :
                   /\ DOMAIN res.minutes[i] = 0..(N - 1)
                   /\ DOMAIN res.meters[i] = 0..(N - 1)
                   /\ \A j \in 0..(N - 1) :
                          /\ res.minutes[i][j] \in Nat /\ res.meters[i][j] \in Nat
                          /\ HasRoute(Reported(i, j)) =>
                                 /\ IsRounded(res.minutes[i][j], Reported(i, j).duration)
                                 /\ res.meters[i][j] = Reported(i, j).distanceMeters
                          /\ HasNoRoute(Reported(i, j)) =>
                                 /\ res.minutes[i][j] = 1000000
                                 /\ res.meters[i][j] = 1000000000
\* A build over several blocks, the provider omitting an off-diagonal element
\* outside the first block.
C7_Witness ==
    /\ mlast.outcome.kind = "ok"
    /\ Len(mlast.req.points) > MAX_BLOCK
    /\ mlast.requests >= 4
    /\ mlast.prov.kind = "omitted"
    /\ mlast.prov.at[1] >= MAX_BLOCK /\ mlast.prov.at[2] < mlast.prov.at[1]
    /\ mlast.outcome.value.minutes[mlast.prov.at[1]][mlast.prov.at[2]] = 1000000
    /\ mlast.outcome.value.minutes[0][1] # 1000000

\* The behaviours in which the provider signals an error for the block of
\* the pair prov.at: an error payload or an HTTP failure.
SignalsError(prov) == prov.kind \in ErrorKinds \cup {"error_spaced", "timeout"}

\* C8: a build during which the provider signals an error for one block
\* fails with the upstream error (status 502) and leaves the cache as it
\* was; the next build with the same key, the provider answering, is not
\* served from the cache: it requests every block again and returns that
\* call's provider values.
C8_UpstreamErrorFailsWholeBuild ==
    [][ EndsCall =>
          /\ (mlast'.key # None /\ ~mlast'.hit /\ mlast'.prov.api_key
                  /\ SignalsError(mlast'.prov)) =>
                 /\ IsError(mlast'.outcome, 502)
                 /\ _cache' = _cache
          /\ (IsError(mlast.outcome, 502) /\ mlast'.key = mlast.key
                  /\ mlast'.prov.kind = "route" /\ mlast'.prov.api_key) =>
                 LET N == Len(mlast'.req.points)
                 IN  /\ ~mlast'.hit
                     /\ mlast'.outcome.kind = "ok"
                     /\ mlast'.requests = BlockCount(N) * BlockCount(N)
                     /\ IsRounded(mlast'.outcome.value.minutes[0][1],
                                  ProviderDuration(0, 1, mlast'.prov.traffic))
      ]_vars

(***************************************************************************)
(* Properties of the routing engine.                                       *)
(***************************************************************************)
Solved == slast.outcome.kind # "none"
PlanReturned == slast.outcome.kind = "ok"
Infeasible == slast.outcome = HTTPException(500, "No feasible route found")
\* The position (from 1) of the first stop of a route with a stop id, 0 if none.
FirstStop(route, stop_id) ==
    IF \E i \in 1..Len(route.stops) : route.stops[i].stop_id = stop_id
        THEN CHOOSE i \in 1..Len(route.stops) :
                 /\ route.stops[i].stop_id = stop_id
                 /\ \A h \in 1..(i - 1) : route.stops[h].stop_id # stop_id
        ELSE 0
\* The stop (index into ids, from 0) a stop id names.
StopOf(stop_id) == (CHOOSE n \in 1..Len(slast.req.ids) : slast.req.ids[n] = stop_id) - 1

\* C1: in every plan returned, for every pickup/drop pair (p, d) of the
\* request, ids[p] and ids[d] are stops of the same vehicle's route and the
\* pickup comes strictly before the drop in it.
C1_PickupBeforeDropSameVehicle ==
    PlanReturned =>
        \A k \in 1..Len(slast.req.pickup_drop_pairs) :
            LET p_id == slast.req.ids[slast.req.pickup_drop_pairs[k][1] + 1]
                d_id == slast.req.ids[slast.req.pickup_drop_pairs[k][2] + 1]
                routes == slast.outcome.value.routes
            IN  \E v \in 1..Len(routes) :
                    /\ FirstStop(routes[v], p_id) > 0
                    /\ FirstStop(routes[v], d_id) > 0
                    /\ FirstStop(routes[v], p_id) < FirstStop(routes[v], d_id)
\* Two pairs served by two vehicles, every travel time being 0 (the time
\* dimension alone orders nothing).
C1_Witness ==
    /\ PlanReturned
    /\ Len(slast.req.pickup_drop_pairs) = 2
    /\ Len(slast.outcome.value.routes) = 2
    /\ \A v \in 1..2 :
           /\ Len(slast.outcome.value.routes[v].stops) = 4
           /\ slast.outcome.value.routes[v].total_travel_time_min = 0

\* C2: in every plan returned, the load reported at every stop of every
\* route, the start and the final depot return included, lies in
\* [0, vehicle_capacity], and every max_load is at most vehicle_capacity.
C2_LoadWithinCapacity ==
    PlanReturned =>
        \A v \in 1..Len(slast.outcome.value.routes) :
            LET route == slast.outcome.value.routes[v]
            IN  /\ \A i \in 1..Len(route.stops) :
                       /\ 0 <= route.stops[i].load_at_stop
                       /\ route.stops[i].load_at_stop <= slast.req.vehicle_capacity
                /\ route.max_load <= slast.req.vehicle_capacity
\* One vehicle of capacity 1 serves two pairs one after the other.
C2_Witness ==
    /\ PlanReturned
    /\ slast.req.vehicle_capacity = 1
    /\ slast.req.vehicle_count = 1
    /\ Len(slast.req.pickup_drop_pairs) = 2
    /\ slast.outcome.value.routes[1].max_load = 1

\* C3: with vehicle_capacity = 0 and at least one pickup/drop pair (both
\* indices being stops of the request), solve_routes returns no plan: it
\* fails with "No feasible route found".
C3_ZeroCapacityInfeasible ==
    ( /\ Solved
      /\ slast.req.vehicle_capacity = 0
      /\ slast.req.pickup_drop_pairs # <<>>
      /\ PairsInRange(Len(slast.req.ids), slast.req.pickup_drop_pairs) )
    => Infeasible
C3_Witness ==
    /\ Infeasible
    /\ slast.req.vehicle_capacity = 0
    /\ slast.req.vehicle_count = 2
    /\ Len(slast.req.pickup_drop_pairs) = 2
    /\ PairsInRange(Len(slast.req.ids), slast.req.pickup_drop_pairs)
    /\ slast.req.minutes[0][1] = 10

\* C9: solve_routes called with a pair index outside [0, number of stops)
\* fails with the invalid-input error (status 400).
C9_OutOfRangePairIsInvalidInput ==
    ( /\ Solved
      /\ ~PairsInRange(Len(slast.req.ids), slast.req.pickup_drop_pairs) )
    => IsError(slast.outcome, 400)

\* An assignment joins two consecutive stops by a sentinel entry.
UsesSentinel(routes, minutes) ==
    \E v \in 1..Len(routes) :
        LET path == Path(routes[v], 0)
        IN  \E i \in 1..(Len(path) - 1) : minutes[path[i]][path[i + 1]] >= 1000000
\* The assignments that satisfy the pairing and the capacity constraints.
PairedWithinCapacity(routes) ==
    LET s == [routes |-> routes, slack |-> 0]
        pairs == slast.req.pickup_drop_pairs
    IN  /\ \A k \in 1..Len(pairs) :
               /\ VehicleOf(s, pairs[k][1], 0) = VehicleOf(s, pairs[k][2], 0)
               /\ PositionOf(s, pairs[k][1], 0) < PositionOf(s, pairs[k][2], 0)
        /\ \A v \in 1..Len(routes) :
               LET path == Path(routes[v], 0)
                   L == LoadCumuls(path, pairs)
               IN  \A i \in 1..Len(path) : L[i] \in 0..slast.req.vehicle_capacity

\* C10: in every plan returned, the time at every stop is at most 1440
\* minutes and no two consecutive stops of a route are joined by a sentinel
\* (10^6 minutes) entry; and when every assignment that satisfies the
\* pairing and capacity constraints needs such an entry, the call fails
\* with "No feasible route found".
C10_HorizonExcludesSentinel ==
    /\ PlanReturned =>
           \A v \in 1..Len(slast.outcome.value.routes) :
               LET stops == slast.outcome.value.routes[v].stops
               IN  /\ \A i \in 1..Len(stops) : stops[i].time_min <= 1440
                   /\ \A i \in 1..(Len(stops) - 1) :
                          slast.req.minutes[StopOf(stops[i].stop_id)]
                                           [StopOf(stops[i + 1].stop_id)] < 1000000
    /\ \/ Infeasible
       \/ ~Solved
       \/ ~PairsInRange(Len(slast.req.ids), slast.req.pickup_drop_pairs)
       \/ \E routes \in Assignments(Len(slast.req.ids), slast.req.vehicle_count, 0) :
              PairedWithinCapacity(routes) /\ ~UsesSentinel(routes, slast.req.minutes)
\* A plan is returned although the matrix holds a sentinel entry that an
\* assignment satisfying pairing and capacity would use: the plan avoids it.
C10_Witness ==
    /\ PlanReturned
    /\ Len(slast.req.pickup_drop_pairs) = 1
    /\ \E routes \in Assignments(Len(slast.req.ids), slast.req.vehicle_count, 0) :
           PairedWithinCapacity(routes) /\ UsesSentinel(routes, slast.req.minutes)
    /\ \E v \in 1..Len(slast.outcome.value.routes) :
           Len(slast.outcome.value.routes[v].stops) > 2

\* C11: every plan returned holds exactly one route per vehicle (vehicle
\* ids 0..vehicle_count - 1 in order), and the first and the last stop_id
\* of every route, the routes of unused vehicles included, is the id of the
\* depot, ids[depot_index].
C11_RoutesStartAndEndAtDepot ==
    PlanReturned =>
        LET routes == slast.outcome.value.routes
            depot_id == slast.req.ids[slast.req.depot_index + 1]
        IN  /\ Len(routes) = slast.req.vehicle_count
            /\ \A v \in 1..Len(routes) :
                   /\ routes[v].vehicle_id = v - 1
                   /\ Len(routes[v].stops) >= 1
                   /\ routes[v].stops[1].stop_id = depot_id
                   /\ routes[v].stops[Len(routes[v].stops)].stop_id = depot_id
\* A plan for two vehicles with a depot other than stop 0: one vehicle is
\* unused, the other visits stops.
C11_Witness ==
    /\ PlanReturned
    /\ slast.req.depot_index > 0
    /\ slast.req.vehicle_count = 2
    /\ \E v, w \in 1..2 :
           /\ Len(slast.outcome.value.routes[v].stops) = 2
           /\ Len(slast.outcome.value.routes[w].stops) > 3

(***************************************************************************)
(* Properties of concurrent builds.                                        *)
(***************************************************************************)
InFlight(t) == threads[t].pc # "idle"
\* The keys of the requests of SpecRace.
RaceKey(req) ==
    _cache_key(ResolveCoords(req.points, req.require_coords,
                             Provider("route", <<0, 0>>, 0, "array"), 1, <<>>).value,
               req.departure_time, req.routing_preference)
\* A complete matrix of N stops: every entry (i, j) holds what the provider
\* reports for the pair (i, j), under one of its two traffic levels.
Complete(res, N) ==
    /\ DOMAIN res.minutes = 0..(N - 1) /\ DOMAIN res.meters = 0..(N - 1)
    /\ \E traffic \in {0, 1} :
           \A i, j \in 0..(N - 1) :
               /\ IsRounded(res.minutes[i][j], ProviderDuration(i, j, traffic))
               /\ res.meters[i][j] = ProviderDistance(i, j)

\* C12: whatever the interleaving of the build_matrix calls of several
\* threads, (1) a call that returns returns a complete matrix, (2) the
\* matrix the cache holds for a key is complete at every moment, and
\* (3) when no call is in flight and a call has returned a matrix for a
\* key, the cache holds a matrix for that key and a later call with that
\* key returns it, without a batch request and without changing the cache.
C12_RaceIsBenign ==
    /\ (Called /\ mlast.outcome.kind = "ok") =>
           Complete(mlast.outcome.value, Len(mlast.req.points))
    /\ \A key \in DOMAIN _cache : Complete(_cache[key], Len(key.coords))
    /\ ((\A t \in 1..MaxThreads : ~InFlight(t)) /\ Called /\ mlast.outcome.kind = "ok") =>
           LET key == mlast.key[1]
           IN  /\ key \in DOMAIN _cache
               /\ \A req \in { q \in RaceRequests : Len(q.points) = 3 } :
                      \A prov \in RaceProviders(Len(req.points)) :
                          LET r == build_matrix(req.points, req.departure_time,
                                       req.routing_preference, req.require_coords,
                                       prov, _cache)
                          IN  /\ RaceKey(req) = key
                              /\ r.outcome = Returned(_cache[key])
                              /\ r.requests = 0
                              /\ r.cache = _cache
\* Two calls missed the cache on the same key and both computed every
\* block; the store of the second replaced the matrix the first had stored.
C12_Witness ==
    /\ Called /\ mlast.outcome.kind = "ok"
    /\ ~mlast.hit /\ mlast.overwrote
    /\ Len(mlast.req.points) = 3
    /\ mlast.requests = BlockCount(3) * BlockCount(3)
    /\ mlast.prov.traffic = 1
    /\ _cache[mlast.key[1]] = mlast.outcome.value

(***************************************************************************)
(* The ids of a returned matrix.                                           *)
(***************************************************************************)
\* C13: the ids list of the matrix a build_matrix call returns is the list
\* of the ids of the stops passed to that call, in the same order, also when
\* the matrix comes from the cache.
C13_ReturnedIdsAreCallIds ==
    (Called /\ mlast.outcome.kind = "ok") =>
        mlast.outcome.value.ids = Ids(mlast.req.points)

====
